---- MODULE Spec2Model ----
(***************************************************************************)
(* Model of the editThat video service: the raw-video frame arithmetic of  *)
(* videoProcessing.js (calculateRawVideoDuration, processVideo,            *)
(* mergeVideos) and the upload / trim / merge / share handlers of app.js   *)
(* over the videos and share_links tables of db.js.                        *)
(*                                                                         *)
(* JavaScript numbers are IEEE-754 binary64 values.  The byte counts the   *)
(* engine passes to Buffer.alloc and Buffer.copy are results of double     *)
(* arithmetic that are then truncated to integers, so the arithmetic is    *)
(* modelled bit-exactly: a double is a sign, a 53-bit significand and the  *)
(* binary exponent of its last bit.                                        *)
(***************************************************************************)
EXTENDS Integers, Sequences, FiniteSets, TLC

(***************************************************************************)
(* IEEE-754 binary64 arithmetic (round to nearest, ties to even).          *)
(* A non-zero double d is (-1)^neg * Int(d.m) * 2^(d.exp), where d.m is    *)
(* the 53-bit significand written as 7 digits of base 256, most            *)
(* significant first (so 16 <= d.m[1] <= 31).  Subnormals, infinities and  *)
(* NaN are out of the range the engine reaches.                            *)
(***************************************************************************)
FZero == [neg |-> FALSE, m |-> <<>>, exp |-> 0]

ZeroBytes(n) == [i \in 1..n |-> 0]

\* a digit string without its leading zero digits
StripLead(B) ==
    IF \A i \in 1..Len(B) : B[i] = 0
    THEN <<>>
    ELSE SubSeq(B, CHOOSE i \in 1..Len(B) : B[i] # 0 /\ \A j \in 1..(i - 1) : B[j] = 0,
                Len(B))

\* a digit string of at most 7 digits on 7 digits
Pad7(B) == ZeroBytes(7 - Len(B)) \o B

\* number of bits of a digit 1..255
BitLen(t) ==
    IF t >= 128 THEN 8 ELSE IF t >= 64 THEN 7 ELSE IF t >= 32 THEN 6
    ELSE IF t >= 16 THEN 5 ELSE IF t >= 8 THEN 4 ELSE IF t >= 4 THEN 3
    ELSE IF t >= 2 THEN 2 ELSE 1

\* Int(B) * 2^r for 0 <= r < 8, followed by q zero digits
ShiftLeftBy(B, r, q) ==
    [j \in 1..(Len(B) + 1) |->
        (IF j = 1 THEN 0 ELSE (B[j - 1] * (2 ^ r)) % 256)
        + (IF j = Len(B) + 1 THEN 0 ELSE B[j] \div (2 ^ (8 - r)))]
    \o ZeroBytes(q)

\* Int(B) * 2^s as a digit string
ShiftLeft(B, s) == ShiftLeftBy(B, s % 8, s \div 8)

\* the first n digits of B shifted right by 0 <= r < 8 bits
ShiftRightBy(B, r, n) ==
    [j \in 1..n |->
        (B[j] \div (2 ^ r)) + (IF j = 1 THEN 0 ELSE (B[j - 1] % (2 ^ r)) * (2 ^ (8 - r)))]

\* Int(B) \div 2^s as a digit string
ShiftRight(B, s) == ShiftRightBy(B, s % 8, Len(B) - (s \div 8))

\* Int(B) % 2^s # 0
LowBitsSet(B, s) ==
    \/ \E j \in (Len(B) - (s \div 8) + 1)..Len(B) : B[j] # 0
    \/ (s % 8 # 0 /\ B[Len(B) - (s \div 8)] % (2 ^ (s % 8)) # 0)

\* bit s (bit 0 is the last) of Int(B)
BitAt(B, s) == (B[Len(B) - (s \div 8)] \div (2 ^ (s % 8))) % 2

\* B with digit k raised by one and the digits after it cleared
IncAt(B, k) ==
    [i \in 1..Len(B) |-> IF i < k THEN B[i] ELSE IF i = k THEN B[i] + 1 ELSE 0]

\* Int(B) + 1 on the digits of B; <<32, 0, ..>> stands for 2^53
IncBytes(B) ==
    IncAt(B, CHOOSE i \in 1..Len(B) :
                 (B[i] # 255 \/ i = 1) /\ \A j \in (i + 1)..Len(B) : B[j] = 255)

\* the significand M + 1 at exponent exp, renormalised when it reaches 2^53
FCarry(neg, M, exp) ==
    IF M[1] = 32
    THEN [neg |-> neg, m |-> <<16, 0, 0, 0, 0, 0, 0>>, exp |-> exp + 1]
    ELSE [neg |-> neg, m |-> M, exp |-> exp]

FRoundUp(neg, M, exp, up) ==
    IF up THEN FCarry(neg, IncBytes(M), exp) ELSE [neg |-> neg, m |-> M, exp |-> exp]

\* round the n-bit magnitude Int(B) * 2^exp, n = d + 53: the d low bits are
\* dropped, to nearest, a tie to the even significand
FRoundBits(neg, B, exp, sticky, d) ==
    IF d <= 0
    THEN [neg |-> neg, m |-> Pad7(StripLead(ShiftLeft(B, -d))), exp |-> exp + d]
    ELSE FRoundUp(neg, Pad7(StripLead(ShiftRight(B, d))), exp + d,
                  BitAt(B, d - 1) = 1
                      /\ (sticky \/ LowBitsSet(B, d - 1) \/ BitAt(B, d) = 1))

FRoundDigits(neg, B, exp, sticky) ==
    IF B = <<>> THEN FZero
    ELSE FRoundBits(neg, B, exp, sticky, 8 * (Len(B) - 1) + BitLen(B[1]) - 53)

\* round the exact magnitude Int(digits) * 2^exp (plus a non-zero tail below
\* the last bit when sticky) to a double
FRound(neg, digits, exp, sticky) == FRoundDigits(neg, StripLead(digits), exp, sticky)

\* the digits of an integer 0 <= n < 2^31
IntBytes(n) == <<n \div 16777216, (n \div 65536) % 256, (n \div 256) % 256, n % 256>>

RECURSIVE BytesInt(_)
BytesInt(B) ==
    IF B = <<>> THEN 0
    ELSE 256 * BytesInt(SubSeq(B, 1, Len(B) - 1)) + B[Len(B)]

\* an integer as a double (exact below 2^53)
FromInt(n) == FRound(n < 0, IntBytes(IF n < 0 THEN -n ELSE n), 0, FALSE)

FNeg(x) == IF x = FZero THEN FZero ELSE [x EXCEPT !.neg = ~x.neg]

RECURSIVE MulAcc(_, _, _, _, _)
MulAcc(B, k, i, carry, acc) ==
    IF i = 0
    THEN IntBytes(carry) \o acc
    ELSE MulAcc(B, k, i - 1, (B[i] * k + carry) \div 256,
                <<(B[i] * k + carry) % 256>> \o acc)

\* x * k for a double x and an integer 0 <= k < 2^23
FMulInt(x, k) ==
    IF x = FZero \/ k = 0 THEN FZero
    ELSE FRound(x.neg, MulAcc(x.m, k, 7, 0, <<>>), x.exp, FALSE)

RECURSIVE DivAcc(_, _, _, _, _)
DivAcc(B, d, i, rem, acc) ==
    IF i > Len(B) THEN [q |-> acc, rem |-> rem]
    ELSE DivAcc(B, d, i + 1, (256 * rem + B[i]) % d,
                Append(acc, (256 * rem + B[i]) \div d))

FRoundQuotient(neg, r, exp) == FRound(neg, r.q, exp, r.rem # 0)

\* x / d for a double x and an integer 0 < d < 2^23; the dividend gets 32
\* more bits so that the quotient has more than 55 of them
FDivInt(x, d) ==
    IF x = FZero THEN FZero
    ELSE FRoundQuotient(x.neg, DivAcc(x.m \o ZeroBytes(4), d, 1, 0, <<>>), x.exp - 32)

GEBytes(A, B) ==
    \/ A = B
    \/ \E i \in 1..Len(A) : A[i] > B[i] /\ \A j \in 1..(i - 1) : A[j] = B[j]

RECURSIVE AddAcc(_, _, _, _, _)
AddAcc(A, B, i, carry, acc) ==
    IF i = 0 THEN <<carry>> \o acc
    ELSE AddAcc(A, B, i - 1, (A[i] + B[i] + carry) \div 256,
                <<(A[i] + B[i] + carry) % 256>> \o acc)

RECURSIVE SubAcc(_, _, _, _, _)
SubAcc(A, B, i, borrow, acc) ==
    IF i = 0 THEN acc
    ELSE IF A[i] - B[i] - borrow < 0
    THEN SubAcc(A, B, i - 1, 1, <<A[i] - B[i] - borrow + 256>> \o acc)
    ELSE SubAcc(A, B, i - 1, 0, <<A[i] - B[i] - borrow>> \o acc)

\* sign and digits of the sum of two signed magnitudes of the same length
SignedSum(xneg, X, yneg, Y) ==
    IF xneg = yneg THEN [neg |-> xneg, digits |-> AddAcc(X, Y, Len(X), 0, <<>>)]
    ELSE IF GEBytes(X, Y) THEN [neg |-> xneg, digits |-> SubAcc(X, Y, Len(X), 0, <<>>)]
    ELSE [neg |-> yneg, digits |-> SubAcc(Y, X, Len(X), 0, <<>>)]

FRoundSum(s, exp) == FRound(s.neg, s.digits, exp, FALSE)

PadTo(B, n) == ZeroBytes(n - Len(B)) \o B

FAddDigits(xneg, xs, yneg, ys, n, exp) ==
    FRoundSum(SignedSum(xneg, PadTo(xs, n), yneg, PadTo(ys, n)), exp)

FAddShifted(xneg, xs, yneg, ys, exp) ==
    FAddDigits(xneg, xs, yneg, ys, IF Len(xs) > Len(ys) THEN Len(xs) ELSE Len(ys), exp)

\* x + y with both significands brought to the exponent exp
FAddAt(x, y, exp) ==
    FAddShifted(x.neg, ShiftLeft(x.m, x.exp - exp), y.neg, ShiftLeft(y.m, y.exp - exp), exp)

FAdd(x, y) ==
    IF x = FZero THEN y
    ELSE IF y = FZero THEN x
    ELSE FAddAt(x, y, IF x.exp < y.exp THEN x.exp ELSE y.exp)

FSub(x, y) == FAdd(x, FNeg(y))

FLess(x, y) == FSub(x, y).neg

Signed(neg, v) == IF neg THEN -v ELSE v

\* ToIntegerOrInfinity / ToIndex: truncation toward zero (results below 2^31)
FTrunc(x) ==
    IF x = FZero \/ -(x.exp) >= 53 THEN 0
    ELSE Signed(x.neg, BytesInt(StripLead(ShiftRight(x.m, -(x.exp)))))

\* the double nearest to the decimal literal p/q of a JSON request body
FLit(p, q) == FDivInt(FromInt(p), q)


(***************************************************************************)
(* Bounds of the model.                                                    *)
(***************************************************************************)
MaxVideos == 3

MaxLinks == 2

\* rows of both tables together
MaxRows == 3

MaxMergeInputs == 2

\* rows of videos where encoded media are handled
MaxMedia == 2

\* bytes of the input files of one merge where encoded media are handled
MaxMergedBytes == 2764800

\* instants (ms since the epoch of the model) at which the clock is observed
Instants == {500, 3600400, 3600500, 86401500}

\* byte lengths of uploaded raw files
UploadSizes == {691200}

\* byte lengths of the buffers handed to the engine directly
EngineSizes == {0, 115, 230400, 230515, 691200, 34560000, 69120000}

\* values of Math.random() as they appear in generated names and tokens
RandomValues == {"r1", "r2"}

\* Authorization headers, split at the blanks: absent, without a token, with
\* two blanks before the token, with a token outside VALID_API_TOKENS, with a
\* valid token
AuthHeaders ==
    {<<>>, <<"Bearer">>, <<"Bearer", "", "test-token-1">>, <<"Bearer", "bad-token">>,
     <<"Bearer", "test-token-1">>}

(***************************************************************************)
(* File contents.  A content is a sequence of segments <<blob, from, to>>, *)
(* the bytes [from, to) of the uploaded blob `blob`; blob 0 is the zero    *)
(* fill of Buffer.alloc.  Distinct uploads are distinct byte strings.      *)
(***************************************************************************)
RECURSIVE CLen(_)
CLen(c) == IF c = <<>> THEN 0 ELSE (c[1][3] - c[1][2]) + CLen(Tail(c))

\* concatenation, joining segments that are adjacent in the same blob
CCat(c, d) ==
    IF c = <<>> THEN d
    ELSE IF d = <<>> THEN c
    ELSE LET l == c[Len(c)]
             r == d[1]
         IN  IF l[1] = r[1] /\ l[1] # 0 /\ l[3] = r[2]
             THEN SubSeq(c, 1, Len(c) - 1) \o <<(<<l[1], l[2], r[3]>>)>> \o Tail(d)
             ELSE c \o d

\* the bytes [a, b) of c, for 0 <= a <= b <= CLen(c)
RECURSIVE CSlice(_, _, _)
CSlice(c, a, b) ==
    IF c = <<>> \/ a >= b THEN <<>>
    ELSE LET n == c[1][3] - c[1][2]
         IN  IF a >= n THEN CSlice(Tail(c), a - n, b - n)
             ELSE LET hi == IF b < n THEN b ELSE n
                  IN  CCat(<<(<<c[1][1], c[1][2] + a, c[1][2] + hi>>)>>,
                           CSlice(Tail(c), 0, b - n))

ZeroFill(n) == IF n <= 0 THEN <<>> ELSE <<(<<0, 0, n>>)>>

Blob(id, len) == IF len = 0 THEN <<>> ELSE <<(<<id, 0, len>>)>>

(***************************************************************************)
(* Paths inside the uploads directory: the '-' separated parts of the file *)
(* name, and the extension.                                                *)
(***************************************************************************)
NoPath == [name |-> <<>>, ext |-> ""]

\* multer filename: `${Date.now()}-${Math.round(Math.random() * 1E9)}${ext}`
UploadPath(timestamp, rnd, ext) == [name |-> <<ToString(timestamp), rnd>>, ext |-> ext]

\* `${basename}-trimmed-${timestamp}${ext}`
TrimmedPath(inputPath, timestamp) ==
    [name |-> inputPath.name \o <<"trimmed", ToString(timestamp)>>, ext |-> inputPath.ext]

\* `merged-${timestamp}.raw`
MergedPath(timestamp) == [name |-> <<"merged", ToString(timestamp)>>, ext |-> ".raw"]

(***************************************************************************)
(* State.                                                                  *)
(***************************************************************************)
VARIABLES
    now,          \* Date.now(), ms
    files,        \* the uploads directory: path -> content
    videos,       \* rows of table videos; the id is the position
    share_links,  \* rows of table share_links
    zone,         \* the time zone of the server: its clock shift, ms
    req,          \* the request (or engine call) being answered
    res           \* its response (or result)

vars == <<now, files, videos, share_links, zone, req, res>>


(***************************************************************************)
(* videoProcessing.js                                                      *)
(***************************************************************************)
\* an optional numeric field of a request body or of the trim options
NoNum == [given |-> FALSE, val |-> FZero]

Num(p, q) == [given |-> TRUE, val |-> FLit(p, q)]

\* JavaScript truthiness of an optional number: undefined and 0 are falsy
Truthy(o) == o.given /\ o.val # FZero

\* variant: the duration of the whole frames of the file only
calculateRawVideoDurationOfWholeFrames(fs, filepath) ==
    FDivInt(FromInt(CLen(fs[filepath]) \div (320 * 240 * 3)), 30)

\* fs.statSync(filepath).size / (320 * 240 * 3 * 30)
calculateRawVideoDuration(fs, filepath) ==
    FDivInt(FromInt(CLen(fs[filepath])), 320 * 240 * 3 * 30)

\* totalFrames = inputFileSize / frameSize
totalFramesOf(inputFileSize, frameSize) == FDivInt(FromInt(inputFileSize), frameSize)

\* startFrame = options.trimStart ? options.trimStart * 30 : 0
startFrameOf(options) ==
    IF Truthy(options.trimStart) THEN FMulInt(options.trimStart.val, 30) ELSE FZero

\* endFrame = options.trimEnd ? (totalFrames - (options.trimEnd * 30)) : totalFrames
endFrameOf(options, totalFrames) ==
    IF Truthy(options.trimEnd)
    THEN FSub(totalFrames, FMulInt(options.trimEnd.val, 30))
    ELSE totalFrames

\* fs.writeFileSync(path, content), or the file a write stream leaves
WriteFile(fs, path, content) ==
    [q \in DOMAIN fs \cup {path} |-> IF q = path THEN content ELSE fs[q]]

\* the bytes copied over the head of a zero-filled target of targetLen bytes
CopyBytes(source, targetLen, s, nb) ==
    IF targetLen = 0 \/ nb <= 0
    THEN ZeroFill(targetLen)
    ELSE CCat(CSlice(source, s, s + nb), ZeroFill(targetLen - nb))

Min3(a, b, c) ==
    IF a <= b /\ a <= c THEN a ELSE IF b <= c THEN b ELSE c

\* the range [s, e) of the source, clamped to the source and to the target
CopyRange(source, targetLen, s, e) ==
    CopyBytes(source, targetLen, s, Min3(e - s, targetLen, CLen(source) - s))

\* inputBuffer.copy(outputBuffer, 0, sourceStart, sourceEnd) into a zero-filled
\* outputBuffer of targetLen bytes: the offsets are truncated to integers and
\* the copied range is clamped to the source and to the target
BufferCopy(source, targetLen, sourceStart, sourceEnd) ==
    CopyRange(source, targetLen, FTrunc(sourceStart), FTrunc(sourceEnd))

EngineResult(ok, error, outputPath, duration, fs) ==
    [ok |-> ok, error |-> error, outputPath |-> outputPath,
     duration |-> duration, files |-> fs]

\* Buffer.alloc(size), the copy into it, and the write of the output file;
\* Buffer.alloc rejects a negative size with a RangeError and truncates a
\* fractional one
writeTrimmed(fs, inputPath, outputPath, size, sourceStart, sourceEnd, newDuration) ==
    IF size.neg
    THEN EngineResult(FALSE, "RangeError", NoPath, FZero, fs)
    ELSE EngineResult(TRUE, "", outputPath, newDuration,
                      WriteFile(fs, outputPath,
                                BufferCopy(fs[inputPath], FTrunc(size),
                                           sourceStart, sourceEnd)))

\* the raw branch of processVideo from the frame numbers on
trimFrames(fs, inputPath, outputPath, startFrame, endFrame, frameSize) ==
    writeTrimmed(fs, inputPath, outputPath,
                 FMulInt(FSub(endFrame, startFrame), frameSize),
                 FMulInt(startFrame, frameSize),
                 FMulInt(endFrame, frameSize),
                 FDivInt(FSub(endFrame, startFrame), 30))

\* processVideo(inputPath, options) at Date.now() = timestamp over the
\* directory fs, for a .raw input and trim options that are not negative
processVideo(fs, inputPath, options, timestamp) ==
    IF inputPath \notin DOMAIN fs
    THEN EngineResult(FALSE, "ENOENT", NoPath, FZero, fs)
    ELSE trimFrames(fs, inputPath, TrimmedPath(inputPath, timestamp),
                    startFrameOf(options),
                    endFrameOf(options, totalFramesOf(CLen(fs[inputPath]), 320 * 240 * 3)),
                    320 * 240 * 3)

RECURSIVE ConcatAll(_, _)
ConcatAll(fs, inputPaths) ==
    IF inputPaths = <<>> THEN <<>>
    ELSE CCat(fs[inputPaths[1]], ConcatAll(fs, Tail(inputPaths)))

Reversed(s) == [i \in 1..Len(s) |-> s[Len(s) + 1 - i]]

\* the chunks that the loop queued on the write stream before a read failed
RECURSIVE WrittenBeforeFailure(_, _)
WrittenBeforeFailure(fs, inputPaths) ==
    IF inputPaths = <<>> \/ inputPaths[1] \notin DOMAIN fs THEN <<>>
    ELSE CCat(fs[inputPaths[1]], WrittenBeforeFailure(fs, Tail(inputPaths)))

\* the merged file written, and its duration from its size
writeMerged(fs, outputPath, content) ==
    EngineResult(TRUE, "", outputPath,
                 FDivInt(FromInt(CLen(content)), 320 * 240 * 3 * 30),
                 WriteFile(fs, outputPath, content))

\* variant: the inputs are written last first
mergeVideosLastFirst(fs, inputPaths, timestamp) ==
    IF \E i \in 1..Len(inputPaths) : inputPaths[i] \notin DOMAIN fs
    THEN EngineResult(FALSE, "ENOENT", NoPath, FZero,
                      WriteFile(fs, MergedPath(timestamp),
                                WrittenBeforeFailure(fs, inputPaths)))
    ELSE writeMerged(fs, MergedPath(timestamp), ConcatAll(fs, Reversed(inputPaths)))

\* mergeVideos(inputPaths) at Date.now() = timestamp.  The write stream opens
\* its file after the synchronous reads of the loop, so an input is read
\* before the output path is truncated; a failed read rejects the promise
\* and leaves the stream open, which then creates the output file and
\* flushes the chunks that were queued before the failure.
mergeVideos(fs, inputPaths, timestamp) ==
    IF \E i \in 1..Len(inputPaths) : inputPaths[i] \notin DOMAIN fs
    THEN EngineResult(FALSE, "ENOENT", NoPath, FZero,
                      WriteFile(fs, MergedPath(timestamp),
                                WrittenBeforeFailure(fs, inputPaths)))
    ELSE writeMerged(fs, MergedPath(timestamp), ConcatAll(fs, inputPaths))


(***************************************************************************)
(* middleware/auth.js                                                      *)
(***************************************************************************)
VALID_API_TOKENS == {"test-token-1", "test-token-2"}

\* variant: any token is let through
authenticateTokenUnchecked(authHeader) ==
    IF Len(authHeader) < 2 \/ authHeader[2] = "" THEN 401
    ELSE 0

\* the status authenticateToken answers, or 0 when it calls next(); the token
\* is authHeader.split(' ')[1], and an empty one counts as none
authenticateToken(authHeader) ==
    IF Len(authHeader) < 2 \/ authHeader[2] = "" THEN 401
    ELSE IF authHeader[2] \notin VALID_API_TOKENS THEN 403
    ELSE 0

AuthError(status) ==
    IF status = 401 THEN "No authentication token provided"
    ELSE "Invalid authentication token"

(***************************************************************************)
(* Requests and responses.                                                 *)
(***************************************************************************)
\* the videoIds field of a request body: an array of ids, or a value that is
\* not an array
ArrayOf(items) == [isArray |-> TRUE, items |-> items]

\* the field is missing
NoIds == [isArray |-> FALSE, items |-> <<>>]

\* a value that has a length of 2 and is not an array
NotAnArray == [isArray |-> FALSE, items |-> <<1, 2>>]

NoInt == [given |-> FALSE, val |-> 0]

NoToken == [ts |-> 0, rnd |-> ""]

ReqBase ==
    [op |-> "", auth |-> <<>>, id |-> 0, trimStart |-> NoNum, trimEnd |-> NoNum,
     videoIds |-> NoIds, expiryHours |-> NoInt, token |-> NoToken,
     path |-> NoPath, paths |-> <<>>, size |-> 0, rnd |-> "", pc |-> "",
     setStartTime |-> NoNum, setDuration |-> NoNum]

ResBase ==
    [status |-> 0, error |-> "", cause |-> "", id |-> 0, filename |-> NoPath, duration |-> FZero,
     size |-> 0, token |-> NoToken, expiryTimestamp |-> 0, body |-> <<>>]

Respond(status, error) == [ResBase EXCEPT !.status = status, !.error = error]

VideoRow(path, size, duration) ==
    [filename |-> path, filepath |-> path, size |-> size, duration |-> duration]

Unlink(fs, path) == [q \in DOMAIN fs \ {path} |-> fs[q]]

(***************************************************************************)
(* app.js: POST /upload                                                    *)
(***************************************************************************)
\* variant: the file of an upload that is too long is kept
SaveUploadKeepingFile(filepath, stored, duration) ==
    IF FLess(FromInt(300), duration)
    THEN /\ res' = Respond(400, "Video duration exceeds maximum allowed length")
         /\ files' = stored
         /\ UNCHANGED videos
    ELSE /\ videos' = Append(videos, VideoRow(filepath, CLen(stored[filepath]), duration))
         /\ files' = stored
         /\ res' = [ResBase EXCEPT !.status = 200, !.id = Len(videos) + 1,
                                   !.filename = filepath, !.duration = duration]

\* the duration check and the INSERT of the uploaded file
SaveUpload(filepath, stored, duration) ==
    IF FLess(FromInt(300), duration)
    THEN /\ res' = Respond(400, "Video duration exceeds maximum allowed length")
         /\ files' = Unlink(stored, filepath)
         /\ UNCHANGED videos
    ELSE /\ videos' = Append(videos, VideoRow(filepath, CLen(stored[filepath]), duration))
         /\ files' = stored
         /\ res' = [ResBase EXCEPT !.status = 200, !.id = Len(videos) + 1,
                                   !.filename = filepath, !.duration = duration]

\* the handler once multer has stored the file
StoreUpload(filepath, stored) ==
    SaveUpload(filepath, stored, calculateRawVideoDuration(stored, filepath))

Upload(authHeader, size, rnd) ==
    /\ req' = [ReqBase EXCEPT !.op = "upload", !.auth = authHeader, !.size = size,
                              !.rnd = rnd]
    /\ IF authenticateToken(authHeader) # 0
       THEN /\ res' = Respond(authenticateToken(authHeader),
                              AuthError(authenticateToken(authHeader)))
            /\ UNCHANGED <<files, videos>>
       ELSE IF size > 1024 * 1024 * 1024
       THEN \* multer LIMIT_FILE_SIZE: the partial file is removed
            /\ res' = Respond(400, "Video duration exceeds maximum allowed length")
            /\ files' = Unlink(files, UploadPath(now, rnd, ".raw"))
            /\ UNCHANGED videos
       ELSE StoreUpload(UploadPath(now, rnd, ".raw"),
                        WriteFile(files, UploadPath(now, rnd, ".raw"),
                                  Blob(Len(videos) + 1, size)))
    /\ UNCHANGED <<now, share_links, zone>>

\* variant: the row is inserted before the engine has answered
SaveProcessedEarly(r, prefix) ==
    IF ~r.ok
    THEN /\ res' = [Respond(500, prefix) EXCEPT !.cause = r.error]
         /\ files' = r.files
         /\ videos' = Append(videos, VideoRow(r.outputPath, 0, r.duration))
    ELSE /\ videos' = Append(videos, VideoRow(r.outputPath,
                                              CLen(r.files[r.outputPath]), r.duration))
         /\ files' = r.files
         /\ res' = [ResBase EXCEPT !.status = 200, !.id = Len(videos) + 1,
                                   !.filename = r.outputPath, !.duration = r.duration,
                                   !.size = CLen(r.files[r.outputPath])]

\* the end of the trim and merge handlers: the row of the file the engine
\* wrote and the response, or the 500 of the catch block
SaveProcessed(r, prefix) ==
    IF ~r.ok
    THEN /\ res' = [Respond(500, prefix) EXCEPT !.cause = r.error]
         /\ files' = r.files
         /\ UNCHANGED videos
    ELSE /\ videos' = Append(videos, VideoRow(r.outputPath,
                                              CLen(r.files[r.outputPath]), r.duration))
         /\ files' = r.files
         /\ res' = [ResBase EXCEPT !.status = 200, !.id = Len(videos) + 1,
                                   !.filename = r.outputPath, !.duration = r.duration,
                                   !.size = CLen(r.files[r.outputPath])]

(***************************************************************************)
(* app.js: POST /videos/:id/trim                                           *)
(***************************************************************************)
\* variant: the video is looked up before the trim values are checked
TrimVideoLookupFirst(authHeader, videoId, trimStart, trimEnd) ==
    /\ req' = [ReqBase EXCEPT !.op = "trim", !.auth = authHeader, !.id = videoId,
                              !.trimStart = trimStart, !.trimEnd = trimEnd]
    /\ IF authenticateToken(authHeader) # 0
       THEN /\ res' = Respond(authenticateToken(authHeader),
                              AuthError(authenticateToken(authHeader)))
            /\ UNCHANGED <<files, videos>>
       ELSE IF videoId \notin 1..Len(videos)
       THEN /\ res' = Respond(404, "Video not found")
            /\ UNCHANGED <<files, videos>>
       ELSE IF ~Truthy(trimStart) /\ ~Truthy(trimEnd)
       THEN /\ res' = Respond(400, "Invalid trim parameters. Provide either trimStart or trimEnd")
            /\ UNCHANGED <<files, videos>>
       ELSE IF (Truthy(trimStart) /\ trimStart.val.neg) \/ (Truthy(trimEnd) /\ trimEnd.val.neg)
       THEN /\ res' = Respond(400, "Trim values must be positive numbers")
            /\ UNCHANGED <<files, videos>>
       ELSE SaveProcessed(processVideo(files, videos[videoId].filepath,
                                       [trimStart |-> trimStart, trimEnd |-> trimEnd], now),
                          "Error processing video: ")
    /\ UNCHANGED <<now, share_links, zone>>

TrimVideo(authHeader, videoId, trimStart, trimEnd) ==
    /\ req' = [ReqBase EXCEPT !.op = "trim", !.auth = authHeader, !.id = videoId,
                              !.trimStart = trimStart, !.trimEnd = trimEnd]
    /\ IF authenticateToken(authHeader) # 0
       THEN /\ res' = Respond(authenticateToken(authHeader),
                              AuthError(authenticateToken(authHeader)))
            /\ UNCHANGED <<files, videos>>
       ELSE IF ~Truthy(trimStart) /\ ~Truthy(trimEnd)
       THEN /\ res' = Respond(400, "Invalid trim parameters. Provide either trimStart or trimEnd")
            /\ UNCHANGED <<files, videos>>
       ELSE IF (Truthy(trimStart) /\ trimStart.val.neg) \/ (Truthy(trimEnd) /\ trimEnd.val.neg)
       THEN /\ res' = Respond(400, "Trim values must be positive numbers")
            /\ UNCHANGED <<files, videos>>
       ELSE IF videoId \notin 1..Len(videos)
       THEN /\ res' = Respond(404, "Video not found")
            /\ UNCHANGED <<files, videos>>
       ELSE SaveProcessed(processVideo(files, videos[videoId].filepath,
                                       [trimStart |-> trimStart, trimEnd |-> trimEnd], now),
                          "Error processing video: ")
    /\ UNCHANGED <<now, share_links, zone>>

(***************************************************************************)
(* app.js: POST /videos/merge                                              *)
(***************************************************************************)
\* the rows of the ids, undefined (0) where there is none
MissingVideo(videoIds) ==
    \E i \in 1..Len(videoIds.items) : videoIds.items[i] \notin 1..Len(videos)

videoPathsOf(videoIds) ==
    [i \in 1..Len(videoIds.items) |-> videos[videoIds.items[i]].filepath]

\* variant: the videos are looked up before the number of ids is checked
MergeVideosLookupFirst(authHeader, videoIds) ==
    /\ req' = [ReqBase EXCEPT !.op = "merge", !.auth = authHeader, !.videoIds = videoIds]
    /\ IF authenticateToken(authHeader) # 0
       THEN /\ res' = Respond(authenticateToken(authHeader),
                              AuthError(authenticateToken(authHeader)))
            /\ UNCHANGED <<files, videos>>
       ELSE IF videoIds.isArray /\ MissingVideo(videoIds)
       THEN /\ res' = Respond(404, "One or more videos not found")
            /\ UNCHANGED <<files, videos>>
       ELSE IF ~videoIds.isArray \/ Len(videoIds.items) < 2
       THEN /\ res' = Respond(400, "At least two video IDs are required")
            /\ UNCHANGED <<files, videos>>
       ELSE SaveProcessed(mergeVideos(files, videoPathsOf(videoIds), now),
                          "Error merging videos: ")
    /\ UNCHANGED <<now, share_links, zone>>

MergeVideos(authHeader, videoIds) ==
    /\ req' = [ReqBase EXCEPT !.op = "merge", !.auth = authHeader, !.videoIds = videoIds]
    /\ IF authenticateToken(authHeader) # 0
       THEN /\ res' = Respond(authenticateToken(authHeader),
                              AuthError(authenticateToken(authHeader)))
            /\ UNCHANGED <<files, videos>>
       ELSE IF ~videoIds.isArray \/ Len(videoIds.items) < 2
       THEN /\ res' = Respond(400, "At least two video IDs are required")
            /\ UNCHANGED <<files, videos>>
       ELSE IF MissingVideo(videoIds)
       THEN /\ res' = Respond(404, "One or more videos not found")
            /\ UNCHANGED <<files, videos>>
       ELSE SaveProcessed(mergeVideos(files, videoPathsOf(videoIds), now),
                          "Error merging videos: ")
    /\ UNCHANGED <<now, share_links, zone>>


(***************************************************************************)
(* app.js: POST /videos/:id/share                                          *)
(***************************************************************************)
\* `${Date.now()}-${Math.random().toString(36).substring(2)}`
generateToken(timestamp, rnd) == [ts |-> timestamp, rnd |-> rnd]

\* the instant at which the clocks of the server's time zone are shifted
ClockChange == 12 * 3600000

\* LocalTZA(t, true) relative to the offset before the clock change
LocalTZA(t, shift) == IF t < ClockChange THEN 0 ELSE shift

\* expiryTimestamp.setHours(expiryTimestamp.getHours() + expiryHours) on a
\* Date of value timestamp: the hours are added to the local time, and the
\* local result is converted back with the offset in force at that local
\* time (the offset before the change where the local time is repeated or
\* skipped)
setHours(timestamp, expiryHours, shift) ==
    LET local  == timestamp + LocalTZA(timestamp, shift)
        target == local + expiryHours * 3600000
    IN  IF target < ClockChange THEN target
        ELSE IF target - shift >= ClockChange THEN target - shift
        ELSE target

ShareRow(videoId, token, expiryTimestamp) ==
    [video_id |-> videoId, token |-> token, expiry_timestamp |-> expiryTimestamp]

\* variant: a token column without the UNIQUE constraint
insertShareLinkUnconstrained(links, row) == [ok |-> TRUE, links |-> Append(links, row)]

\* INSERT INTO share_links under the UNIQUE constraint on token (db.js)
insertShareLink(links, row) ==
    IF \E i \in 1..Len(links) : links[i].token = row.token
    THEN [ok |-> FALSE, links |-> links]
    ELSE [ok |-> TRUE, links |-> Append(links, row)]

\* variant: a new link renews the links its video already has
SaveShareLinkRenewing(ins, token, expiryTimestamp) ==
    IF ~ins.ok
    THEN /\ res' = Respond(500, "Internal server error")
         /\ UNCHANGED share_links
    ELSE /\ share_links' =
                [i \in 1..Len(ins.links) |->
                    IF ins.links[i].video_id = ins.links[Len(ins.links)].video_id
                    THEN [ins.links[i] EXCEPT !.expiry_timestamp = expiryTimestamp]
                    ELSE ins.links[i]]
         /\ res' = [ResBase EXCEPT !.status = 200, !.token = token,
                                   !.expiryTimestamp = expiryTimestamp]

\* the response to the INSERT: the link, or the 500 of the catch block
SaveShareLink(ins, token, expiryTimestamp) ==
    IF ~ins.ok
    THEN /\ res' = Respond(500, "Internal server error")
         /\ UNCHANGED share_links
    ELSE /\ share_links' = ins.links
         /\ res' = [ResBase EXCEPT !.status = 200, !.token = token,
                                   !.expiryTimestamp = expiryTimestamp]

\* variant: INSERT OR REPLACE, the row of a token that is taken is rewritten
InsertShareReplacing(videoId, token, expiryTimestamp) ==
    SaveShareLink(IF \E i \in 1..Len(share_links) : share_links[i].token = token
                  THEN [ok |-> TRUE,
                        links |-> [i \in 1..Len(share_links) |->
                                      IF share_links[i].token = token
                                      THEN ShareRow(videoId, token, expiryTimestamp)
                                      ELSE share_links[i]]]
                  ELSE insertShareLink(share_links, ShareRow(videoId, token, expiryTimestamp)),
                  token, expiryTimestamp)

InsertShare(videoId, token, expiryTimestamp) ==
    SaveShareLink(insertShareLink(share_links, ShareRow(videoId, token, expiryTimestamp)),
                  token, expiryTimestamp)

\* variant: the link is inserted without a look at the videos
CreateShareUnchecked(authHeader, videoId, expiryHoursField, rnd) ==
    /\ req' = [ReqBase EXCEPT !.op = "share", !.auth = authHeader, !.id = videoId,
                              !.expiryHours = expiryHoursField, !.rnd = rnd]
    /\ IF authenticateToken(authHeader) # 0
       THEN /\ res' = Respond(authenticateToken(authHeader),
                              AuthError(authenticateToken(authHeader)))
            /\ UNCHANGED share_links
       ELSE InsertShare(videoId, generateToken(now, rnd),
                        setHours(now,
                                 IF expiryHoursField.given THEN expiryHoursField.val ELSE 24,
                                 zone))
    /\ UNCHANGED <<now, files, videos, zone>>

CreateShare(authHeader, videoId, expiryHoursField, rnd) ==
    /\ req' = [ReqBase EXCEPT !.op = "share", !.auth = authHeader, !.id = videoId,
                              !.expiryHours = expiryHoursField, !.rnd = rnd]
    /\ IF authenticateToken(authHeader) # 0
       THEN /\ res' = Respond(authenticateToken(authHeader),
                              AuthError(authenticateToken(authHeader)))
            /\ UNCHANGED share_links
       ELSE IF videoId \notin 1..Len(videos)
       THEN /\ res' = Respond(404, "Video not found")
            /\ UNCHANGED share_links
       ELSE InsertShare(videoId, generateToken(now, rnd),
                        setHours(now,
                                 IF expiryHoursField.given THEN expiryHoursField.val ELSE 24,
                                 zone))
    /\ UNCHANGED <<now, files, videos, zone>>

(***************************************************************************)
(* app.js: GET /videos/share/:token                                        *)
(***************************************************************************)
\* SQLite datetime(): the time value in whole seconds, the fraction dropped
datetime(timestamp) == timestamp \div 1000

\* the rows of share_links JOIN videos WHERE token = ? AND
\* datetime(expiry_timestamp) > datetime('now')
findActiveShareLink(token, links, vids, timestamp) ==
    {i \in 1..Len(links) :
        /\ links[i].token = token
        /\ links[i].video_id \in 1..Len(vids)
        /\ datetime(links[i].expiry_timestamp) > datetime(timestamp)}

\* fs.createReadStream(shareLink.filepath).pipe(res) under the headers of the link
sendVideo(videoId, video, fs) ==
    IF video.filepath \notin DOMAIN fs
    THEN [ResBase EXCEPT !.status = 200, !.id = videoId,
                         !.filename = video.filename, !.error = "ENOENT"]
    ELSE [ResBase EXCEPT !.status = 200, !.id = videoId,
                         !.filename = video.filename, !.body = fs[video.filepath]]

\* db.get: the first of the rows found
firstRow(found, links, vids, fs) ==
    sendVideo(links[CHOOSE i \in found : \A j \in found : i <= j].video_id,
              vids[links[CHOOSE i \in found : \A j \in found : i <= j].video_id], fs)

\* variant: an expired link is answered with a message of its own
resolveShareLinkNamingExpiry(token, links, vids, fs, timestamp) ==
    IF findActiveShareLink(token, links, vids, timestamp) = {}
    THEN IF \E i \in 1..Len(links) : links[i].token = token
         THEN Respond(404, "Share link expired")
         ELSE Respond(404, "Share link not found or expired")
    ELSE firstRow(findActiveShareLink(token, links, vids, timestamp), links, vids, fs)

resolveShareLink(token, links, vids, fs, timestamp) ==
    IF findActiveShareLink(token, links, vids, timestamp) = {}
    THEN Respond(404, "Share link not found or expired")
    ELSE firstRow(findActiveShareLink(token, links, vids, timestamp), links, vids, fs)

\* variant: the route is behind authenticateToken
ResolveShareAuthenticated(token) ==
    /\ req' = [ReqBase EXCEPT !.op = "resolve", !.token = token]
    /\ res' = IF authenticateToken(<<>>) # 0
              THEN Respond(authenticateToken(<<>>), AuthError(authenticateToken(<<>>)))
              ELSE resolveShareLink(token, share_links, videos, files, now)
    /\ UNCHANGED <<now, files, videos, share_links, zone>>

\* GET /videos/share/:token, sent without an Authorization header
ResolveShare(token) ==
    /\ req' = [ReqBase EXCEPT !.op = "resolve", !.token = token]
    /\ res' = resolveShareLink(token, share_links, videos, files, now)
    /\ UNCHANGED <<now, files, videos, share_links, zone>>

(***************************************************************************)
(* Requests are answered one after the other, each at one instant of the   *)
(* clock; the clock advances between requests.                             *)
(***************************************************************************)
Idle == req.op = ""

\* the response is sent
EndRequest ==
    /\ ~Idle
    /\ req' = ReqBase
    /\ res' = ResBase
    /\ UNCHANGED <<now, files, videos, share_links, zone>>

Tick ==
    /\ Idle
    /\ \E t \in Instants : t > now /\ now' = t
    /\ UNCHANGED <<files, videos, share_links, zone, req, res>>

(***************************************************************************)
(* The service.                                                            *)
(***************************************************************************)
\* bodies of trim requests: nothing given, the last 1.5 frames cut, the first
\* 3 frames cut, the first second cut
NoTrim == <<NoNum, NoNum>>

CutEnd == <<NoNum, Num(1, 20)>>

\* both trim values given as 0
ZeroTrim == <<Num(0, 1), Num(0, 1)>>

\* trimStart: -1
NegStart == <<[given |-> TRUE, val |-> FNeg(FLit(1, 1))], NoNum>>

\* trimStart: 1, trimEnd: -0.5
NegEnd == <<Num(1, 1), [given |-> TRUE, val |-> FNeg(FLit(1, 2))]>>

TrimRequests ==
    {NoTrim, ZeroTrim, NegStart, NegEnd, CutEnd, <<Num(1, 10), NoNum>>, <<Num(1, 1), NoNum>>}

ExpiryHours == {NoInt, [given |-> TRUE, val |-> 1]}

\* a token that no share link was created with
UnknownToken == [ts |-> 0, rnd |-> "non-existent-token"]

RequestTokens == {share_links[i].token : i \in 1..Len(share_links)} \cup {UnknownToken}

\* videoIds of merge requests: missing, not an array, and arrays of the ids
\* 1 and 2 and of the first id that no video has
VideoIdLists ==
    {NoIds, NotAnArray}
        \cup {ArrayOf(s) : s \in UNION {[1..n -> {1, 2, Len(videos) + 1}] :
                                            n \in 0..MaxMergeInputs}}

ValidHeader == <<"Bearer", "test-token-1">>

\* time zones: without a clock change, and with the clocks put back by an
\* hour at ClockChange
ClockShifts == {0, -3600000}

\* the instants of the trim and merge requests
MediaInstants == {500, 3600400}

Init ==
    /\ now = 500
    /\ files = <<>>
    /\ videos = <<>>
    /\ share_links = <<>>
    /\ zone \in ClockShifts
    /\ req = ReqBase
    /\ res = ResBase

\* The requests sent to the service.  A request that fails authentication,
\* or names a video that does not exist, is sent with one body only.  Videos
\* are uploaded at the first instant and trimmed and merged at the first two;
\* share links are created and resolved at every instant.
UploadRequest ==
    /\ Idle
    /\ Len(videos) < MaxVideos
    /\ now = 500
    /\ Len(videos) + Len(share_links) < MaxRows
    /\ \E h \in AuthHeaders, n \in UploadSizes, r \in RandomValues :
           /\ h = ValidHeader \/ (n = 691200 /\ r = "r1")
           /\ Upload(h, n, r)

TrimRequest ==
    /\ Idle
    /\ Len(videos) < MaxVideos
    /\ now \in MediaInstants
    /\ Len(videos) + Len(share_links) < MaxRows
    /\ \E h \in AuthHeaders, id \in 1..(Len(videos) + 1), tr \in TrimRequests :
           /\ h = ValidHeader \/ (id = 1 /\ tr = NoTrim)
           /\ id <= Len(videos) \/ tr \in {NoTrim, NegStart, CutEnd}
           /\ id = 1 \/ tr \notin {ZeroTrim, NegEnd}
           /\ TrimVideo(h, id, tr[1], tr[2])

MergeRequest ==
    /\ Idle
    /\ Len(videos) < MaxVideos
    /\ now \in MediaInstants
    /\ Len(videos) + Len(share_links) < MaxRows
    /\ \E h \in AuthHeaders, ids \in VideoIdLists :
           /\ h = ValidHeader \/ ids = NoIds
           /\ MergeVideos(h, ids)

ShareRequest ==
    /\ Idle
    /\ Len(share_links) < MaxLinks
    /\ Len(videos) + Len(share_links) < MaxRows
    /\ \E h \in AuthHeaders, id \in 1..(Len(videos) + 1), eh \in ExpiryHours,
          r \in RandomValues :
           /\ h = ValidHeader \/ (id = 1 /\ eh = NoInt /\ r = "r1")
           /\ id <= Len(videos) \/ (eh = NoInt /\ r = "r1")
           /\ CreateShare(h, id, eh, r)

ResolveRequest ==
    /\ Idle
    /\ \E tok \in RequestTokens : ResolveShare(tok)

Next ==
    \/ UploadRequest
    \/ TrimRequest
    \/ MergeRequest
    \/ ShareRequest
    \/ ResolveRequest
    \/ EndRequest
    \/ Tick

Spec == Init /\ [][Next]_vars


(***************************************************************************)
(* The engine on its own: calculateRawVideoDuration, processVideo and      *)
(* mergeVideos applied to a directory that holds two raw input files.      *)
(***************************************************************************)
EngineInput1 == UploadPath(1, "r1", ".raw")

EngineInput2 == UploadPath(1, "r2", ".raw")

EngineInputs == {EngineInput1, EngineInput2}

\* trim options in seconds: omitted, 0, half a frame, 1.5 frames, 3 frames,
\* 1 s, 5 s, 6 s, 8.3 s
EngineTrimTimes ==
    {NoNum, Num(0, 1), Num(1, 60), Num(1, 20), Num(1, 10), Num(1, 1), Num(5, 1), Num(6, 1),
     Num(83, 10)}

\* a path at which there is no file
EngineMissing == UploadPath(1, "r3", ".raw")

EnginePathLists ==
    UNION {[1..n -> EngineInputs \cup {EngineMissing}] : n \in 2..(MaxMergeInputs + 1)}

EngineRes(r) ==
    [ResBase EXCEPT !.status = IF r.ok THEN 200 ELSE 500, !.error = r.error,
                    !.filename = r.outputPath, !.duration = r.duration,
                    !.size = IF r.ok THEN CLen(r.files[r.outputPath]) ELSE 0,
                    !.body = IF r.ok THEN r.files[r.outputPath] ELSE <<>>]

\* the promise of an engine call settles
Returned(r) ==
    /\ res' = EngineRes(r)
    /\ files' = r.files

CallDuration(path) ==
    /\ DOMAIN files = EngineInputs
    /\ req.op = ""
    /\ req' = [ReqBase EXCEPT !.op = "calculateRawVideoDuration", !.path = path]
    /\ res' = [ResBase EXCEPT !.status = 200,
                              !.duration = calculateRawVideoDuration(files, path)]
    /\ UNCHANGED <<now, files, videos, share_links, zone>>

CallProcessVideo(path, trimStart, trimEnd) ==
    /\ DOMAIN files = EngineInputs
    /\ req.op = ""
    /\ req' = [ReqBase EXCEPT !.op = "processVideo", !.path = path,
                              !.trimStart = trimStart, !.trimEnd = trimEnd]
    /\ Returned(processVideo(files, path, [trimStart |-> trimStart, trimEnd |-> trimEnd],
                             now))
    /\ UNCHANGED <<now, videos, share_links, zone>>

CallMergeVideos(paths) ==
    /\ DOMAIN files = EngineInputs
    /\ req.op = ""
    /\ req' = [ReqBase EXCEPT !.op = "mergeVideos", !.paths = paths]
    /\ Returned(mergeVideos(files, paths, now))
    /\ UNCHANGED <<now, videos, share_links, zone>>

InitEngine ==
    /\ now = 500
    /\ \E n1 \in EngineSizes, n2 \in EngineSizes :
           files = [q \in EngineInputs |->
                       IF q = EngineInput1 THEN Blob(1, n1) ELSE Blob(2, n2)]
    /\ videos = <<>>
    /\ share_links = <<>>
    /\ zone = 0
    /\ req = ReqBase
    /\ res = ResBase

NextEngine ==
    \/ \E p \in EngineInputs : CallDuration(p)
    \/ \E p \in EngineInputs, ts \in EngineTrimTimes, te \in EngineTrimTimes :
           CallProcessVideo(p, ts, te)
    \/ \E ps \in EnginePathLists : CallMergeVideos(ps)

SpecEngine == InitEngine /\ [][NextEngine]_vars


(***************************************************************************)
(* Encoded (non-raw) media.  ffprobe and ffmpeg run outside the process    *)
(* and call back later, and the write stream of mergeVideos finishes       *)
(* later, so these requests are answered in a later step than the one      *)
(* that starts them; req.pc is the call the request waits for.  What the   *)
(* external tools answer is an input of the model.                         *)
(***************************************************************************)
\* byte lengths of uploaded files: 0.1 s of raw video, and 301 s of it
MediaUploadSizes == {691200, 2080512000}

\* byte lengths of the files ffmpeg writes
TranscodedSizes == {1000}

\* format.duration as ffprobe reports it, seconds
ProbeDurations == {FromInt(300), FromInt(301)}

MediaExts == {".raw", ".mp4"}

MediaPending == req.op # "" /\ res.status = 0

MediaResponded == res.status # 0

\* the bytes of a file that ffmpeg wrote
Transcoded(len) == Blob(100 + Len(videos) + 1, len)

\* POST /upload: multer has stored the file; a .raw file is measured at once,
\* any other is handed to ffprobe
UploadMedia(authHeader, size, rnd, ext) ==
    IF ext = ".raw" \/ authenticateToken(authHeader) # 0 \/ size > 1024 * 1024 * 1024
    THEN Upload(authHeader, size, rnd)
    ELSE /\ req' = [ReqBase EXCEPT !.op = "upload", !.auth = authHeader, !.size = size,
                                   !.rnd = rnd, !.path = UploadPath(now, rnd, ext),
                                   !.pc = "ffprobe"]
         /\ res' = ResBase
         /\ files' = WriteFile(files, UploadPath(now, rnd, ext), Blob(Len(videos) + 1, size))
         /\ UNCHANGED <<now, videos, share_links, zone>>

\* ffprobe calls back with the metadata of the upload
UploadProbed(duration) ==
    /\ req.op = "upload"
    /\ req.pc = "ffprobe"
    /\ req' = [req EXCEPT !.pc = ""]
    /\ SaveUpload(req.path, files, duration)
    /\ UNCHANGED <<now, share_links, zone>>

\* ffprobe calls back with an error: reject(err) settles the promise and the
\* catch block answers 500, unless the read of metadata.format that follows
\* in the callback throws first and ends the process
UploadProbeFailed ==
    /\ req.op = "upload"
    /\ req.pc = "ffprobe"
    /\ \/ /\ req' = [req EXCEPT !.pc = ""]
          /\ res' = Respond(500, "Internal server error")
       \/ /\ req' = [req EXCEPT !.pc = "crashed"]
          /\ UNCHANGED res
    /\ UNCHANGED <<now, files, videos, share_links, zone>>

\* totalDuration = isRawVideo ? calculateRawVideoDuration(inputPath) : 0
totalDurationOf(fs, inputPath) ==
    IF inputPath.ext = ".raw" THEN calculateRawVideoDuration(fs, inputPath) ELSE FZero

\* command.setStartTime(options.trimStart), where trimStart is given
setStartTimeOf(options) == IF Truthy(options.trimStart) THEN options.trimStart ELSE NoNum

\* command.setDuration(totalDuration - options.trimEnd), where trimEnd is given
setDurationOf(options, totalDuration) ==
    IF Truthy(options.trimEnd)
    THEN [given |-> TRUE, val |-> FSub(totalDuration, options.trimEnd.val)]
    ELSE NoNum

\* the trim request reaches the ffmpeg branch of processVideo
TrimStartsFfmpeg(authHeader, videoId, trimStart, trimEnd) ==
    /\ authenticateToken(authHeader) = 0
    /\ Truthy(trimStart) \/ Truthy(trimEnd)
    /\ ~((Truthy(trimStart) /\ trimStart.val.neg) \/ (Truthy(trimEnd) /\ trimEnd.val.neg))
    /\ videoId \in 1..Len(videos)
    /\ videos[videoId].filepath.ext # ".raw"

\* POST /videos/:id/trim: a raw video is trimmed at once, for any other
\* ffmpeg is started
TrimMedia(authHeader, videoId, trimStart, trimEnd) ==
    IF ~TrimStartsFfmpeg(authHeader, videoId, trimStart, trimEnd)
    THEN TrimVideo(authHeader, videoId, trimStart, trimEnd)
    ELSE /\ req' = [ReqBase EXCEPT !.op = "trim", !.auth = authHeader, !.id = videoId,
                                   !.trimStart = trimStart, !.trimEnd = trimEnd,
                                   !.path = TrimmedPath(videos[videoId].filepath, now),
                                   !.setStartTime =
                                       setStartTimeOf([trimStart |-> trimStart,
                                                       trimEnd |-> trimEnd]),
                                   !.setDuration =
                                       setDurationOf([trimStart |-> trimStart,
                                                      trimEnd |-> trimEnd],
                                                     totalDurationOf(files,
                                                         videos[videoId].filepath)),
                                   !.pc = "ffmpeg"]
         /\ res' = ResBase
         /\ UNCHANGED <<now, files, videos, share_links, zone>>

\* ffmpeg emits 'end': the output file is written and is handed to ffprobe
FfmpegEnd(size) ==
    /\ req.pc = "ffmpeg"
    /\ req' = [req EXCEPT !.pc = "ffprobe"]
    /\ files' = WriteFile(files, req.path, Transcoded(size))
    /\ UNCHANGED <<now, videos, share_links, zone, res>>

\* ffmpeg emits 'error': the promise is rejected and the catch block answers
FfmpegError ==
    /\ req.pc = "ffmpeg"
    /\ req' = [req EXCEPT !.pc = ""]
    /\ res' = [Respond(500, "Error processing video: ")
                  EXCEPT !.cause = "Error processing video: ffmpeg"]
    /\ UNCHANGED <<now, files, videos, share_links, zone>>

\* variant: the duration of the output is computed from its size
OutputMeasured(duration) ==
    /\ req.op = "trim"
    /\ req.pc = "ffprobe"
    /\ req' = [req EXCEPT !.pc = ""]
    /\ SaveProcessed(EngineResult(TRUE, "", req.path,
                                  calculateRawVideoDuration(files, req.path), files),
                     "Error processing video: ")
    /\ UNCHANGED <<now, share_links, zone>>

\* ffprobe calls back with the metadata of the output file
OutputProbed(duration) ==
    /\ req.op = "trim"
    /\ req.pc = "ffprobe"
    /\ req' = [req EXCEPT !.pc = ""]
    /\ SaveProcessed(EngineResult(TRUE, "", req.path, duration, files),
                     "Error processing video: ")
    /\ UNCHANGED <<now, share_links, zone>>

\* ffprobe calls back with an error inside the 'end' listener: the inner
\* promise is rejected in an async listener that nothing awaits, so the
\* promise of processVideo is neither resolved nor rejected; the rejection
\* (or the read of metadata.format) is unhandled and ends the process where
\* the runtime does not only warn
OutputProbeFailed ==
    /\ req.op = "trim"
    /\ req.pc = "ffprobe"
    /\ \E lost \in {"hung", "crashed"} : req' = [req EXCEPT !.pc = lost]
    /\ UNCHANGED <<now, files, videos, share_links, zone, res>>

\* the merge request reaches mergeVideos
MergeStartsStream(authHeader, videoIds) ==
    /\ authenticateToken(authHeader) = 0
    /\ videoIds.isArray
    /\ Len(videoIds.items) >= 2
    /\ ~MissingVideo(videoIds)

\* POST /videos/merge: the inputs are read and queued on the write stream
MergeMedia(authHeader, videoIds) ==
    IF ~MergeStartsStream(authHeader, videoIds)
    THEN MergeVideos(authHeader, videoIds)
    ELSE /\ req' = [ReqBase EXCEPT !.op = "merge", !.auth = authHeader,
                                   !.videoIds = videoIds,
                                   !.paths = videoPathsOf(videoIds),
                                   !.path = MergedPath(now), !.pc = "stream"]
         /\ res' = ResBase
         /\ UNCHANGED <<now, files, videos, share_links, zone>>

\* the write stream emits 'finish'
StreamFinish ==
    /\ req.pc = "stream"
    /\ req' = [req EXCEPT !.pc = ""]
    /\ SaveProcessed(mergeVideos(files, req.paths, now), "Error merging videos: ")
    /\ UNCHANGED <<now, share_links, zone>>

\* the write stream emits 'error': the output file is left empty
StreamError ==
    /\ req.pc = "stream"
    /\ req' = [req EXCEPT !.pc = ""]
    /\ res' = [Respond(500, "Error merging videos: ") EXCEPT !.cause = "EIO"]
    /\ files' = WriteFile(files, req.path, <<>>)
    /\ UNCHANGED <<now, videos, share_links, zone>>

\* the response is sent
SendResponse ==
    /\ MediaResponded
    /\ EndRequest

InitMedia ==
    /\ now = 500
    /\ files = <<>>
    /\ videos = <<>>
    /\ share_links = <<>>
    /\ zone = 0
    /\ req = ReqBase
    /\ res = ResBase

UploadMediaRequest ==
    /\ Idle
    /\ Len(videos) < MaxMedia
    /\ \E h \in AuthHeaders, n \in MediaUploadSizes, r \in RandomValues, x \in MediaExts :
           /\ h = ValidHeader \/ (n = 691200 /\ r = "r1" /\ x = ".raw")
           /\ UploadMedia(h, n, r, x)

UploadProbeAnswers == \E d \in ProbeDurations : UploadProbed(d)

TrimMediaRequest ==
    /\ Idle
    /\ Len(videos) < MaxMedia
    /\ \E h \in AuthHeaders, id \in 1..(Len(videos) + 1), tr \in TrimRequests :
           /\ h = ValidHeader \/ (id = 1 /\ tr = NoTrim)
           /\ id <= Len(videos) \/ tr \in {NoTrim, CutEnd}
           /\ TrimMedia(h, id, tr[1], tr[2])

FfmpegEnds == \E n \in TranscodedSizes : FfmpegEnd(n)

OutputProbeAnswers == \E d \in ProbeDurations : OutputProbed(d)

\* the bytes of the files at the paths, of those that exist
RECURSIVE InputBytes(_)
InputBytes(inputPaths) ==
    IF inputPaths = <<>> THEN 0
    ELSE (IF inputPaths[1] \in DOMAIN files THEN CLen(files[inputPaths[1]]) ELSE 0)
             + InputBytes(Tail(inputPaths))

MergeMediaRequest ==
    /\ Idle
    /\ Len(videos) < MaxMedia
    /\ \E h \in AuthHeaders, ids \in VideoIdLists :
           /\ h = ValidHeader \/ ids = NoIds
           /\ (ids.isArray /\ ~MissingVideo(ids)) =>
                  InputBytes(videoPathsOf(ids)) <= MaxMergedBytes
           /\ MergeMedia(h, ids)

\* a share link is created for the first video
ShareMediaRequest ==
    /\ Idle
    /\ share_links = <<>>
    /\ videos # <<>>
    /\ CreateShare(ValidHeader, 1, NoInt, "r1")

NextMedia ==
    \/ UploadMediaRequest
    \/ UploadProbeAnswers
    \/ UploadProbeFailed
    \/ TrimMediaRequest
    \/ FfmpegEnds
    \/ FfmpegError
    \/ OutputProbeAnswers
    \/ OutputProbeFailed
    \/ MergeMediaRequest
    \/ StreamFinish
    \/ StreamError
    \/ ShareMediaRequest
    \/ SendResponse

\* The external tools answer, the stream settles and a response that is
\* ready is sent: the event loop runs every callback that is due.
\* a callback that is due, or a response that is ready
MediaCallback ==
    \/ SendResponse
    \/ UploadProbeFailed
    \/ UploadProbeAnswers
    \/ FfmpegError
    \/ FfmpegEnds
    \/ OutputProbeFailed
    \/ OutputProbeAnswers
    \/ StreamError
    \/ StreamFinish

SpecMedia ==
    /\ InitMedia
    /\ [][NextMedia]_vars
    /\ WF_vars(MediaCallback)


(***************************************************************************)
(* Properties of the engine (SpecEngine).  After a call, req holds the     *)
(* arguments, res the result and files the directory the call left.        *)
(***************************************************************************)
\* the double d is the double nearest to the rational n / k (0 <= n < 2^31,
\* 0 < k < 2^23): |Int(d.m) * k - n * 2^(-d.exp)| <= k / 2
AbsDiff(X, Y) ==
    StripLead(IF GEBytes(X, Y) THEN SubAcc(X, Y, Len(X), 0, <<>>)
                                ELSE SubAcc(Y, X, Len(X), 0, <<>>))

AtMostHalf(D, k) == Len(D) <= 3 /\ 2 * BytesInt(D) <= k

WithinHalf(A, B, w, k) == AtMostHalf(AbsDiff(PadTo(A, w), PadTo(B, w)), k)

CloseDigits(A, B, k) == WithinHalf(A, B, IF Len(A) > Len(B) THEN Len(A) ELSE Len(B), k)

NearestDouble(d, n, k) ==
    IF n = 0 THEN d = FZero
    ELSE /\ d # FZero
         /\ ~d.neg
         /\ Len(d.m) = 7
         /\ d.m[1] \in 16..31
         /\ d.exp <= 0
         /\ CloseDigits(MulAcc(d.m, k, 7, 0, <<>>), ShiftLeft(IntBytes(n), -(d.exp)), k)

DurationCalled == req.op = "calculateRawVideoDuration"

\* C1: calculateRawVideoDuration returns L / (230400 * 30) for a file of L
\* bytes: the double nearest to that quotient, with no rounding to frames or
\* to seconds, and 0 for L = 0.
C1_DurationIsQuotient ==
    DurationCalled =>
        /\ NearestDouble(res.duration, CLen(files[req.path]), 230400 * 30)
        /\ (CLen(files[req.path]) = 0 => res.duration = FZero)

\* C1 witness: the duration of a file of 115 bytes, less than one frame
C1_Witness ==
    /\ DurationCalled
    /\ CLen(files[req.path]) = 115
    /\ res.duration # FZero

TrimCalled == req.op = "processVideo"

InputBuffer == files[req.path]

\* floor(seconds * frameRate) of an optional trim time
FloorFrames(o) == IF o.given THEN FTrunc(FMulInt(o.val, 30)) ELSE 0

FloorTotalFrames == CLen(InputBuffer) \div (320 * 240 * 3)

FloorStartFrame == FloorFrames(req.trimStart)

FloorEndFrame == FloorTotalFrames - FloorFrames(req.trimEnd)

ValidWindow ==
    /\ 0 <= FloorStartFrame
    /\ FloorStartFrame < FloorEndFrame
    /\ FloorEndFrame <= FloorTotalFrames

\* C2: for a valid window the raw trim returns the frames
\* [startFrame, endFrame) of the input, startFrame = floor(trimStart * 30),
\* endFrame = floor(len / 230400) - floor(trimEnd * 30), and the duration
\* (endFrame - startFrame) / 30.
C2_TrimReturnsWholeFrames ==
    (TrimCalled /\ ValidWindow) =>
        /\ res.status = 200
        /\ res.size = (FloorEndFrame - FloorStartFrame) * 230400
        /\ res.body = CSlice(InputBuffer, FloorStartFrame * 230400, FloorEndFrame * 230400)
        /\ NearestDouble(res.duration, FloorEndFrame - FloorStartFrame, 30)

\* C3: a window that is empty or out of bounds is rejected and no output file
\* is written.
C3_InvalidWindowRejected ==
    (TrimCalled /\ ~ValidWindow) =>
        /\ res.status # 200
        /\ DOMAIN files = EngineInputs

\* C4: a trim with trimStart and trimEnd 0 or omitted returns the input
\* buffer and the duration calculateRawVideoDuration gives for it.
C4_IdentityTrim ==
    (TrimCalled /\ ~Truthy(req.trimStart) /\ ~Truthy(req.trimEnd)) =>
        /\ res.status = 200
        /\ res.body = InputBuffer
        /\ res.duration = calculateRawVideoDuration(files, req.path)

\* the whole number k of frames of a trim time that is k / 30 seconds (the
\* double of the request is the double nearest to k / 30), or -1
NearestFrames(o, t) ==
    IF NearestDouble(o.val, t, 30) THEN t
    ELSE IF NearestDouble(o.val, t + 1, 30) THEN t + 1
    ELSE -1

WholeFrames(o) ==
    IF ~o.given THEN 0 ELSE NearestFrames(o, FTrunc(FMulInt(o.val, 30)))

TrimStartFrames == WholeFrames(req.trimStart)

TrimEndFrames == WholeFrames(req.trimEnd)

WholeFrameTrim ==
    /\ TrimCalled
    /\ CLen(InputBuffer) % 230400 = 0
    /\ TrimStartFrames >= 0
    /\ TrimEndFrames >= 0
    /\ TrimStartFrames + TrimEndFrames < CLen(InputBuffer) \div 230400

KeptFrames == CLen(InputBuffer) \div 230400 - TrimStartFrames - TrimEndFrames

\* C16: a raw input of whole frames trimmed by whole numbers of frames that
\* leave some of it gives an output of the frames that are left, of the size
\* and of the duration of that many frames.
C16_WholeFrameTrim ==
    WholeFrameTrim =>
        /\ res.status = 200
        /\ res.size = KeptFrames * 230400
        /\ res.body = CSlice(InputBuffer, TrimStartFrames * 230400,
                             (TrimStartFrames + KeptFrames) * 230400)
        /\ NearestDouble(res.duration, KeptFrames, 30)

\* C22: the output of every raw trim with a trim time that succeeds is a whole number of
\* frames, copied from a range of the input that starts and ends on frame
\* boundaries, also where the input is not a whole number of frames or a trim
\* time is not a whole number of frames.
C22_NoPartialFrame ==
    (TrimCalled /\ (Truthy(req.trimStart) \/ Truthy(req.trimEnd)) /\ res.status = 200) =>
        /\ res.size % 230400 = 0
        /\ \E a \in 0..FloorTotalFrames :
               res.body = CSlice(InputBuffer, a * 230400, a * 230400 + res.size)

MergeCalled ==
    /\ req.op = "mergeVideos"
    /\ \A i \in 1..Len(req.paths) : req.paths[i] \in EngineInputs

\* the path of the merged file
MergeOutput == MergedPath(now)

\* C25: after a call of mergeVideos the output file holds the concatenation
\* of all the inputs, or there is no output file; a failed read of a later
\* input leaves no file of the inputs before it.
C25_MergeWriteIsAtomic ==
    req.op = "mergeVideos" =>
        \/ MergeOutput \notin DOMAIN files
        \/ /\ MergeCalled
           /\ files[MergeOutput] = ConcatAll(files, req.paths)

RECURSIVE SumLen(_)
SumLen(paths) ==
    IF paths = <<>> THEN 0 ELSE CLen(files[paths[1]]) + SumLen(Tail(paths))

RECURSIVE SumDurations(_)
SumDurations(paths) ==
    IF paths = <<>> THEN FZero
    ELSE FAdd(SumDurations(SubSeq(paths, 1, Len(paths) - 1)),
              calculateRawVideoDuration(files, paths[Len(paths)]))

\* the output holds input i at the offset that is the length of the inputs
\* before it
MergedInOrder ==
    \A i \in 1..Len(req.paths) :
        CSlice(res.body, SumLen(SubSeq(req.paths, 1, i - 1)),
               SumLen(SubSeq(req.paths, 1, i))) = files[req.paths[i]]

OneMillionth == FLit(1, 1000000)

FAbs(x) == IF x.neg THEN FNeg(x) ELSE x

ResolveCalled == req.op = "resolve"

\* the rows of share_links that hold the token
LinksOf(token) == {i \in 1..Len(share_links) : share_links[i].token = token}

NotFoundOrExpired == Respond(404, "Share link not found or expired")

\* C6: a token resolved at an instant before the expiry stored for its link
\* returns the video the link was created for.
C6_ResolvesBeforeExpiry ==
    ResolveCalled =>
        \A i \in LinksOf(req.token) :
            now < share_links[i].expiry_timestamp =>
                /\ res.status = 200
                /\ res.id = share_links[i].video_id
                /\ res.filename = videos[share_links[i].video_id].filename
                /\ res.body = files[videos[share_links[i].video_id].filepath]

\* C7: resolving a token at an instant t >= the stored expiry fails with the
\* not-found-or-expired error; so does resolving it 24 h and 1 s after the
\* link was created (no link is created with more than the default 24 hours).
C7_FailsFromExpiryOn ==
    ResolveCalled =>
        \A i \in LinksOf(req.token) :
            /\ now >= share_links[i].expiry_timestamp => res = NotFoundOrExpired
            /\ now >= share_links[i].token.ts + 24 * 3600000 + 1000 =>
                   res = NotFoundOrExpired

RemoveAt(rows, i) == SubSeq(rows, 1, i - 1) \o SubSeq(rows, i + 1, Len(rows))

\* the answer to the token of row i where that row was never inserted
NeverIssued(i) ==
    resolveShareLink(share_links[i].token, RemoveAt(share_links, i), videos, files, now)

\* C8: the answer to an expired token is the answer the same request gets in
\* the state that differs only in that the token was never issued.
C8_ExpiredAnswersLikeNeverIssued ==
    \A i \in 1..Len(share_links) :
        share_links[i].expiry_timestamp <= now =>
            /\ resolveShareLink(share_links[i].token, share_links, videos, files, now)
                   = NeverIssued(i)
            /\ NeverIssued(i).status = 404
            /\ (ResolveCalled /\ req.token = share_links[i].token) => res = NeverIssued(i)

\* C8 witness: a token resolved at the very instant of its expiry
C8_Witness ==
    /\ ResolveCalled
    /\ \E i \in LinksOf(req.token) : share_links[i].expiry_timestamp = now
    /\ res.status = 404

ShareCalled == req.op = "share" /\ authenticateToken(req.auth) = 0

\* C9: a share request for a video that does not exist is answered 404 and
\* adds no row; any other adds exactly one row, for that video, that expires
\* expiryHours (24 when omitted) hours after the request.
C9_CreateShareLink ==
    [][ShareCalled' =>
          IF req'.id \notin 1..Len(videos)
          THEN res'.status = 404 /\ share_links' = share_links
          ELSE /\ Len(share_links') = Len(share_links) + 1
               /\ SubSeq(share_links', 1, Len(share_links)) = share_links
               /\ share_links'[Len(share_links')].video_id = req'.id
               /\ share_links'[Len(share_links')].expiry_timestamp =
                      now + (IF req'.expiryHours.given THEN req'.expiryHours.val ELSE 24)
                            * 3600000]_vars

TokensUnique ==
    \A i, j \in 1..Len(share_links) :
        share_links[i].token = share_links[j].token => i = j

\* C10: no two rows of share_links hold the same token; a share request whose
\* generated token is the token of a row fails and adds no row.
C10_TokenUniqueness ==
    /\ []TokensUnique
    /\ [][(ShareCalled' /\ req'.id \in 1..Len(videos)
              /\ LinksOf(generateToken(now, req'.rnd)) # {}) =>
             (res'.status = 500 /\ share_links' = share_links)]_vars

\* C10 witness: a share request answered 500 because its token is taken
C10_Witness ==
    /\ ShareCalled
    /\ res.status = 500
    /\ LinksOf(generateToken(now, req.rnd)) # {}

\* C11: expired is terminal.  A token whose resolution fails in a state fails
\* in every state that follows it, whatever request is answered or however
\* the clock advances in between, and a resolve request for it is answered
\* 404.
C11_ExpiredIsTerminal ==
    [][\A i \in 1..Len(share_links) :
          resolveShareLink(share_links[i].token, share_links, videos, files, now).status = 404
              => /\ resolveShareLink(share_links[i].token, share_links', videos', files',
                                     now').status = 404
                 /\ (ResolveCalled' /\ req'.token = share_links[i].token)
                        => res'.status = 404]_vars

\* C11 witness: a token resolved after its expiry and after another link was
\* created later than that expiry
C11_Witness ==
    /\ ResolveCalled
    /\ res.status = 404
    /\ \E i \in LinksOf(req.token), j \in 1..Len(share_links) :
           /\ share_links[i].expiry_timestamp < now
           /\ share_links[j].token.ts > share_links[i].expiry_timestamp

(***************************************************************************)
(* Properties of the asset store (Spec).                                   *)
(***************************************************************************)
\* a trim or merge request answered with the new asset
Derived(r, s) == r.op \in {"trim", "merge"} /\ s.status = 200

\* C12: the asset store is append-only.  A successful trim or merge adds
\* exactly one row, and no step changes a row of videos or the bytes stored
\* at the filepath of a row.
C12_AppendOnly ==
    [][/\ Derived(req', res') => Len(videos') = Len(videos) + 1
       /\ \A i \in 1..Len(videos) :
              /\ Len(videos') >= i
              /\ videos'[i] = videos[i]
              /\ videos[i].filepath \in DOMAIN files'
              /\ files'[videos[i].filepath] = files[videos[i].filepath]]_vars

\* C13: the size of every row of videos is the length of the file at its
\* filepath.
C13_SizeIsStoredLength ==
    \A i \in 1..Len(videos) :
        /\ videos[i].filepath \in DOMAIN files
        /\ videos[i].size = CLen(files[videos[i].filepath])

HandlesDistinct ==
    \A i, j \in 1..Len(videos) : videos[i].filepath = videos[j].filepath => i = j

\* C14: a trim or merge writes a path that no file has yet, and no two rows
\* of videos have the same filepath.
C14_OutputsNeverCollide ==
    /\ []HandlesDistinct
    /\ [][Derived(req', res') => res'.filename \notin DOMAIN files]_vars

(***************************************************************************)
(* Properties of the requests that wait for a callback (SpecMedia).        *)
(***************************************************************************)
TrimOrMergePending == req.op \in {"trim", "merge"} /\ res.status = 0

\* C15: every trim or merge that was started is eventually answered, with a
\* result or with an error.
C15_EveryJobSettles == TrimOrMergePending ~> MediaResponded

(***************************************************************************)
(* Properties of the request validation (Spec).                            *)
(***************************************************************************)
Protected(r) == r.op \in {"upload", "trim", "merge", "share"}

\* the second field of the Authorization header, "" when there is none
BearerToken(r) == IF Len(r.auth) < 2 THEN "" ELSE r.auth[2]

StoresUnchanged == videos' = videos /\ share_links' = share_links /\ files' = files

\* C17: a request to /upload, /videos/:id/trim, /videos/merge or
\* /videos/:id/share without a token is answered 401 and one with a token
\* that is not valid 403, and neither changes the tables or the files; a
\* request with a valid token is answered by its handler.
C17_AuthenticationGuards ==
    [][Protected(req') =>
          /\ BearerToken(req') = "" => (res'.status = 401 /\ StoresUnchanged)
          /\ (BearerToken(req') # "" /\ BearerToken(req') \notin VALID_API_TOKENS)
                 => (res'.status = 403 /\ StoresUnchanged)
          /\ BearerToken(req') \in VALID_API_TOKENS => res'.status \notin {401, 403}]_vars

\* C17 witness: a share request with an invalid token for a video that exists
C17_Witness ==
    /\ req.op = "share"
    /\ BearerToken(req) = "bad-token"
    /\ req.id \in 1..Len(videos)
    /\ res.status = 403

\* C18: a merge request whose videoIds is missing, is not an array or has
\* fewer than two entries is answered 400, also where an entry names no
\* video; one with two or more entries of which one names no video is
\* answered 404; neither writes a file or adds a row.
C18_MergeValidation ==
    [][(req'.op = "merge" /\ BearerToken(req') \in VALID_API_TOKENS) =>
          /\ (~req'.videoIds.isArray \/ Len(req'.videoIds.items) < 2)
                 => (res'.status = 400 /\ files' = files /\ videos' = videos)
          /\ (/\ req'.videoIds.isArray
              /\ Len(req'.videoIds.items) >= 2
              /\ \E i \in 1..Len(req'.videoIds.items) :
                     req'.videoIds.items[i] \notin 1..Len(videos))
                 => (res'.status = 404 /\ files' = files /\ videos' = videos)]_vars

\* C18 witness: a merge request with a single id, of no video, answered 400
\* while a video is stored
C18_Witness ==
    /\ req.op = "merge"
    /\ BearerToken(req) \in VALID_API_TOKENS
    /\ req.videoIds.isArray
    /\ Len(req.videoIds.items) = 1
    /\ req.videoIds.items[1] \notin 1..Len(videos)
    /\ Len(videos) >= 1
    /\ res.status = 400

\* a trim value that was given and is not 0
NonZero(o) == o.given /\ o.val # FZero

\* a trim value that was given and is below 0
Negative(o) == o.given /\ o.val.neg

\* C19: a trim request with neither a non-zero trimStart nor a non-zero
\* trimEnd is answered 400, one with a negative trimStart or trimEnd is
\* answered 400, also where the id names no video, and one with valid values
\* and an id of no video is answered 404; none of them writes a file or adds
\* a row.
C19_TrimValidation ==
    [][(req'.op = "trim" /\ BearerToken(req') \in VALID_API_TOKENS) =>
          /\ (~NonZero(req'.trimStart) /\ ~NonZero(req'.trimEnd))
                 => (res'.status = 400 /\ files' = files /\ videos' = videos)
          /\ (Negative(req'.trimStart) \/ Negative(req'.trimEnd))
                 => (res'.status = 400 /\ files' = files /\ videos' = videos)
          /\ (/\ NonZero(req'.trimStart) \/ NonZero(req'.trimEnd)
              /\ ~Negative(req'.trimStart)
              /\ ~Negative(req'.trimEnd)
              /\ req'.id \notin 1..Len(videos))
                 => (res'.status = 404 /\ files' = files /\ videos' = videos)]_vars

\* C19 witness: a trim request with a negative trimStart and the id of no
\* video, answered 400 while a video is stored
C19_Witness ==
    /\ req.op = "trim"
    /\ BearerToken(req) \in VALID_API_TOKENS
    /\ Negative(req.trimStart)
    /\ req.id \notin 1..Len(videos)
    /\ Len(videos) >= 1
    /\ res.status = 400


(***************************************************************************)
(* Properties of the uploads (SpecMedia).                                  *)
(***************************************************************************)
\* a .raw upload with a valid token is answered in this step
RawUploadAnswered ==
    /\ Idle
    /\ req'.op = "upload"
    /\ req'.pc = ""
    /\ BearerToken(req') \in VALID_API_TOKENS

\* the file that multer stored for the upload that is answered in this step
UploadedFile == IF Idle THEN UploadPath(now, req'.rnd, ".raw") ELSE req.path

\* the upload is refused as too long: no row, and no file
UploadRejected ==
    /\ res'.status = 400
    /\ res'.error = "Video duration exceeds maximum allowed length"
    /\ videos' = videos
    /\ UploadedFile \notin DOMAIN files'

\* the upload is recorded as one row more, of the stored file
UploadRecorded ==
    /\ res'.status = 200
    /\ Len(videos') = Len(videos) + 1
    /\ SubSeq(videos', 1, Len(videos)) = videos
    /\ videos'[Len(videos')].filepath = UploadedFile
    /\ UploadedFile \in DOMAIN files'
    /\ videos'[Len(videos')].size = req'.size

\* a .raw upload: more than 300 s of frames are refused, a file within the
\* size limit is recorded with the duration of its size
RawUploadLimit ==
    RawUploadAnswered =>
        IF req'.size > 300 * (230400 * 30)
        THEN UploadRejected
        ELSE req'.size <= 1024 * 1024 * 1024 =>
                 /\ UploadRecorded
                 /\ NearestDouble(videos'[Len(videos')].duration, req'.size, 230400 * 30)

\* C20 as stated: an upload of more than 300 s is answered 400 'Video
\* duration exceeds maximum allowed length', adds no row and leaves no file;
\* an upload of at most 300 s within the size limit adds exactly one row,
\* whose duration is size / (230400 * 30).
C20_DurationIsEstimateOfSize ==
    [][/\ RawUploadLimit
       /\ \A d \in ProbeDurations :
              UploadProbed(d) =>
                  IF FLess(FromInt(300), d)
                  THEN UploadRejected
                  ELSE /\ UploadRecorded
                       /\ NearestDouble(videos'[Len(videos')].duration,
                                        req'.size, 230400 * 30)]_vars

\* C20 amended: as above, but the duration of the row is size / (230400 * 30)
\* for a .raw upload only; for any other upload it is the duration that
\* ffprobe reported.
C20_UploadLimit ==
    [][/\ RawUploadLimit
       /\ \A d \in ProbeDurations :
              UploadProbed(d) =>
                  IF FLess(FromInt(300), d)
                  THEN UploadRejected
                  ELSE /\ UploadRecorded
                       /\ videos'[Len(videos')].duration = d]_vars

\* C20 witness: an .mp4 upload that ffprobe measured as 300 s is recorded
C20_Witness ==
    /\ req.op = "upload"
    /\ req.path.ext = ".mp4"
    /\ res.status = 200
    /\ Len(videos) >= 1
    /\ videos[Len(videos)].filepath = req.path
    /\ videos[Len(videos)].duration = FromInt(300)


(***************************************************************************)
(* Properties of the frame of the operations (Spec).                       *)
(***************************************************************************)
\* C21: a GET /videos/share/:token, answered with the video or with 404,
\* leaves videos, share_links and every file unchanged, and it is answered
\* by its handler although it carries no token.
C21_ResolveIsReadOnly ==
    [][req'.op = "resolve" =>
          /\ StoresUnchanged
          /\ BearerToken(req') = ""
          /\ res'.status \in {200, 404}
          /\ res'.status = 404 => res'.error = "Share link not found or expired"]_vars

\* C21 witness: a request without a token is answered with the video while
\* videos, share_links and files hold something
C21_Witness ==
    /\ req.op = "resolve"
    /\ req.auth = <<>>
    /\ res.status = 200
    /\ res.body # <<>>
    /\ Len(share_links) >= 1


(***************************************************************************)
(* Properties of the trims of encoded media (SpecMedia).                   *)
(***************************************************************************)
\* the trim options of the request that is answered in this step
TrimOptions == [trimStart |-> req'.trimStart, trimEnd |-> req'.trimEnd]

\* (endFrame - startFrame) / 30 of the raw branch
ArithmeticDuration(size) ==
    FDivInt(FSub(endFrameOf(TrimOptions, totalFramesOf(size, 320 * 240 * 3)),
                 startFrameOf(TrimOptions)), 30)

\* C23: the duration of a trim of an encoded video is the duration that the
\* probe of the output file reports once ffmpeg has ended; the duration of a
\* trim of a raw video is (endFrame - startFrame) / 30, returned in the step
\* of the request, and no raw trim waits for ffmpeg or for a probe.
C23_EncodedDurationIsProbed ==
    [][/\ \A d \in ProbeDurations :
              OutputProbed(d) =>
                  /\ req.path.ext # ".raw"
                  /\ req.path \in DOMAIN files
                  /\ res'.status = 200
                  /\ res'.duration = d
                  /\ videos'[Len(videos')].duration = d
       /\ (req'.op = "trim" /\ req'.pc \in {"ffmpeg", "ffprobe"}) =>
              videos[req'.id].filepath.ext # ".raw"
       /\ (Idle /\ req'.op = "trim" /\ res'.status = 200) =>
              /\ videos[req'.id].filepath.ext = ".raw"
              /\ res'.duration = ArithmeticDuration(CLen(files[videos[req'.id].filepath]))]_vars

\* C23 witness: an .mp4 of 1000 bytes that ffmpeg wrote is recorded with the
\* 300 s that the probe reported
C23_Witness ==
    /\ req.op = "trim"
    /\ req.path.ext = ".mp4"
    /\ res.status = 200
    /\ res.size = 1000
    /\ res.duration = FromInt(300)
    /\ videos[Len(videos)].filepath = req.path

\* a raw trim answered with a duration
C23_WitnessRaw ==
    /\ req.op = "trim"
    /\ req.path = NoPath
    /\ res.status = 200
    /\ res.duration # FZero


\* C24: an upload that fails, because the duration is above 300 s or because
\* the probe of an encoded upload fails, adds no row and leaves no file of
\* the upload that has no row.
C24_FailedUploadLeavesNoFile ==
    [][(/\ req'.op = "upload"
        /\ BearerToken(req') \in VALID_API_TOKENS
        /\ res.status = 0
        /\ res'.status \notin {0, 200}) =>
           /\ videos' = videos
           /\ UploadedFile \in DOMAIN files' =>
                  \E i \in 1..Len(videos') : videos'[i].filepath = UploadedFile]_vars


\* C26: the rows of share_links are immutable.  No step changes or removes a
\* row; a share request that is answered with a link appends one row, and
\* no other step changes share_links.
C26_ShareLinksImmutable ==
    [][/\ \A i \in 1..Len(share_links) :
              /\ Len(share_links') >= i
              /\ share_links'[i] = share_links[i]
       /\ share_links' # share_links =>
              /\ req'.op = "share"
              /\ res'.status = 200
              /\ Len(share_links') = Len(share_links) + 1
       /\ (req'.op = "share" /\ res'.status = 200) => share_links' # share_links
       /\ req'.op \in {"upload", "trim", "merge", "resolve"} =>
              share_links' = share_links]_vars

\* C26 witness: a second link is created for a video that has a link
C26_Witness ==
    /\ req.op = "share"
    /\ res.status = 200
    /\ Len(share_links) >= 2
    /\ \E i \in 1..(Len(share_links) - 1) :
           share_links[i].video_id = share_links[Len(share_links)].video_id


(***************************************************************************)
(* Properties of the failures of the engine (SpecMedia).                   *)
(***************************************************************************)
\* the request is answered with an error and the tables are as they were
AnsweredWithError ==
    /\ res'.status = 500
    /\ res'.error # ""
    /\ videos' = videos
    /\ share_links' = share_links

\* a trim request that passes the checks of the handler, for a raw video,
\* is answered in this step
RawTrimRuns ==
    /\ Idle
    /\ req'.op = "trim"
    /\ BearerToken(req') \in VALID_API_TOKENS
    /\ Truthy(req'.trimStart) \/ Truthy(req'.trimEnd)
    /\ ~Negative(req'.trimStart)
    /\ ~Negative(req'.trimEnd)
    /\ req'.id \in 1..Len(videos)
    /\ videos[req'.id].filepath.ext = ".raw"

\* the file of the video is missing, or the window of the trim ends before
\* it starts
RawTrimFails ==
    \/ videos[req'.id].filepath \notin DOMAIN files
    \/ FSub(endFrameOf(TrimOptions,
                       totalFramesOf(CLen(files[videos[req'.id].filepath]), 320 * 240 * 3)),
            startFrameOf(TrimOptions)).neg

\* C27: a trim or merge that fails in the engine, because the window ends
\* before it starts, because an input cannot be read, because ffmpeg reports
\* an error or because the write stream does, is answered with an error,
\* adds no row to videos and changes no row of videos or share_links.
C27_EngineFailureChangesNoRow ==
    [][/\ (RawTrimRuns /\ RawTrimFails) => AnsweredWithError
       /\ (req.pc = "ffmpeg" /\ req'.pc = "" /\ req.path \notin DOMAIN files')
              => AnsweredWithError
       /\ (/\ req.pc = "stream"
           /\ req'.pc = ""
           /\ \/ \E i \in 1..Len(req.paths) : req.paths[i] \notin DOMAIN files
              \/ files'[req.path] # ConcatAll(files, req.paths))
              => AnsweredWithError]_vars

\* C27 witness: a trim whose window ends before it starts is answered 500
\* while a video has a share link
C27_Witness ==
    /\ req.op = "trim"
    /\ res.status = 500
    /\ res.cause = "RangeError"
    /\ Len(share_links) >= 1
    /\ Len(videos) >= 1

\* a merge of a video whose file is missing is answered 500
C27_WitnessUnreadable ==
    /\ req.op = "merge"
    /\ res.status = 500
    /\ res.cause = "ENOENT"

\* a trim that ffmpeg failed is answered 500
C27_WitnessTranscoder ==
    /\ req.op = "trim"
    /\ res.status = 500
    /\ res.cause = "Error processing video: ffmpeg"


\* a trim of an encoded video with trimEnd waits for ffmpeg
EncodedTrimWithEnd ==
    /\ req.op = "trim"
    /\ req.pc = "ffmpeg"
    /\ Truthy(req.trimEnd)

\* the duration of the source, as recorded in its row
SourceDuration == videos[req.id].duration

\* C28: the duration that a trim of an encoded video with trimEnd asks of
\* ffmpeg is the duration of the source less trimEnd, and less trimStart
\* where both are given; it is not negative where trimEnd is at most the
\* duration of the source and trimStart is not given.
C28_RequestedDuration ==
    EncodedTrimWithEnd =>
        /\ req.setDuration.given
        /\ req.setDuration.val =
               FSub(FSub(SourceDuration, req.trimEnd.val),
                    IF Truthy(req.trimStart) THEN req.trimStart.val ELSE FZero)
        /\ (~FLess(SourceDuration, req.trimEnd.val) /\ ~Truthy(req.trimStart))
               => ~req.setDuration.val.neg


\* C29: every row of share_links names a row of videos, and a resolve
\* request that finds a link is answered with the one video it names.
C29_ShareLinksNameVideos ==
    /\ \A i \in 1..Len(share_links) : share_links[i].video_id \in 1..Len(videos)
    /\ (ResolveCalled /\ res.status = 200) =>
           /\ LinksOf(req.token) # {}
           /\ \A i \in LinksOf(req.token) :
                  /\ res.id = share_links[i].video_id
                  /\ res.filename = videos[share_links[i].video_id].filename

\* C29 witness: a link of the second of two videos is resolved
C29_Witness ==
    /\ ResolveCalled
    /\ res.status = 200
    /\ res.id = 2
    /\ Len(videos) >= 2

====
